---- MODULE Spec2Model ----
(***************************************************************************)
(* Model of the sales-summary API route                                    *)
(*   src/pages/api/sales/[start]/[end]/index.ts  (handler)                 *)
(*                                                                         *)
(* The handler is one async function with three awaits (order search,      *)
(* Airtable select, catalog batch retrieve).  Each action below is the     *)
(* code that runs from one await's return to the next await (or to the     *)
(* response / the throw).  What the external services return is the        *)
(* action's input.                                                         *)
(*                                                                         *)
(* Numbers.  Money amounts of orders and tenders are integers (minor       *)
(* units).  The Airtable unit price is a decimal in major units, so the    *)
(* arithmetic of the handler is modelled over rationals [n, d] with d > 0  *)
(* and Math.round as floor(x + 1/2); over the amounts of this model the     *)
(* handler's double arithmetic rounds to the same integers.  Inputs carry  *)
(* their numeric fields (amounts, quantities and prices are present and    *)
(* numeric), a tender's fee is no more than its amount, and a catalog      *)
(* object is an item variation (it has itemVariationData).                 *)
(***************************************************************************)
EXTENDS Integers, Sequences, FiniteSets, TLC

VARIABLES
    pc,                         \* position of the handler
    squareOrders,               \* squareOrders.result.orders
    airtableItemDetails,        \* [sku, unit_cost_inc_vat] per Airtable record
    catalogVariationObjectIds,  \* objectIds of the batch retrieve request
    catalogObjects,             \* catalogVariationResponse.result.objects
    squareAirtableMap,          \* catalog object id -> Airtable item
    response,                   \* res.status(200).json(...) once sent
    error                       \* message of the Error thrown, once thrown

vars == << pc, squareOrders, airtableItemDetails, catalogVariationObjectIds,
           catalogObjects, squareAirtableMap, response, error >>

----------------------------------------------------------------------------
(* JavaScript values *)

\* undefined, for a value that is otherwise a number, a list or a record
Undefined == << >>
Some(x) == << x >>
IsDefined(o) == o # Undefined
Get(o) == o[1]

\* undefined, for a value that is otherwise a string
NoId == "undefined"

\* o ?? d
Coalesce(o, d) == IF IsDefined(o) THEN Get(o) ELSE d

----------------------------------------------------------------------------
(* Number arithmetic, exact: a number is [n |-> numerator, d |-> denominator] *)

Rat(n, d) == [n |-> n, d |-> d]
Int2Rat(i) == Rat(i, 1)
RSub(a, b) == Rat(a.n * b.d - b.n * a.d, a.d * b.d)
RMul(a, b) == Rat(a.n * b.n, a.d * b.d)
\* a / b for b > 0
RDiv(a, b) == Rat(a.n * b.d, a.d * b.n)

\* Math.round: the nearest integer, a tie going up (towards +infinity)
MathRound(x) == (2 * x.n + x.d) \div (2 * x.d)

\* arr.reduce((a, b) => a + b, 0) over a list of integers
RECURSIVE Sum(_)
Sum(arr) == IF arr = << >> THEN 0 ELSE Head(arr) + Sum(Tail(arr))

\* arr.flat() of a list of lists
RECURSIVE Flat(_)
Flat(arrs) == IF arrs = << >> THEN << >> ELSE Head(arrs) \o Flat(Tail(arrs))

\* the set of the elements of s
Range(s) == { s[i] : i \in 1..Len(s) }

\* the elements of s, each once, in the order they first appear
RECURSIVE Distinct(_)
Distinct(s) ==
    IF s = << >> THEN << >>
    ELSE LET front == Distinct(SubSeq(s, 1, Len(s) - 1))
         IN  IF s[Len(s)] \in Range(front) THEN front ELSE Append(front, s[Len(s)])

\* arr.includes(x)
Includes(arr, x) == \E i \in 1..Len(arr) : arr[i] = x

----------------------------------------------------------------------------
(* Lines 46-60: configuration and the path parameters *)

\* new Date(s).toISOString(): the ISO string of a date that parses, and a
\* RangeError (Undefined here) for one that does not
ToISOString(s) ==
    CASE s = "2022-10-01" -> Some("2022-10-01T00:00:00.000Z")
      [] s = "2022-10-31T23:59:59Z" -> Some("2022-10-31T23:59:59.000Z")
      [] OTHER -> Undefined

----------------------------------------------------------------------------
(* Lines 83-97: Airtable records to item details.  The try block maps each  *)
(* record to its sku and unit price; the model follows it (the catch block *)
(* differs only in a unit price of 0).                                     *)

\* one record: String(get("Square Catalog ID")), Number(get("Unit Price"))
AirtableItemDetail(record) ==
    [sku |-> record.squareCatalogId, unit_cost_inc_vat |-> record.unitPrice]

AirtableItemDetails(results) ==
    [i \in 1..Len(results) |-> AirtableItemDetail(results[i])]

----------------------------------------------------------------------------
(* Line 100: the object ids of the batch retrieve *)

\* order.lineItems?.map(item => item.catalogObjectId)
OrderCatalogObjectIds(order) ==
    [j \in 1..Len(order.lineItems) |-> order.lineItems[j].catalogObjectId]

\* as CatalogVariationObjectIds, had the handler dropped repeated ids
CatalogVariationObjectIdsDeduplicated(orders) ==
    Distinct(SelectSeq(Flat([i \in 1..Len(orders) |-> OrderCatalogObjectIds(orders[i])]),
                       LAMBDA id : id # NoId))

\* orders.map(...).flat().filter(id => typeof id == 'string')
CatalogVariationObjectIds(orders) ==
    SelectSeq(Flat([i \in 1..Len(orders) |-> OrderCatalogObjectIds(orders[i])]),
              LAMBDA id : id # NoId)

----------------------------------------------------------------------------
(* Lines 112-120: square variations to airtable items *)

\* airtableItemDetails.find(airtableItem => airtableItem.sku == itemId):
\* the first match, or undefined
FindAirtableItem(details, itemId) ==
    LET hits == { i \in 1..Len(details) : details[i].sku = itemId }
    IN  IF hits = {} THEN Undefined
        ELSE Some(details[CHOOSE i \in hits : \A j \in hits : i <= j])

\* the sku that stands for a rounding-up line
RndUpSku == "RNDUP"

\* as LookupThrows, without the exception made for the rounding-up sku
LookupThrowsWithoutSentinel(details, object) ==
    ~IsDefined(FindAirtableItem(details, object.itemVariationData.itemId))

\* the callback throws for this object
LookupThrows(details, object) ==
    /\ ~IsDefined(FindAirtableItem(details, object.itemVariationData.itemId))
    /\ object.itemVariationData.sku # RndUpSku

\* the value the callback pairs with object.id (when it does not throw)
LookupEntry(details, object) ==
    LET airtableItem == FindAirtableItem(details, object.itemVariationData.itemId)
    IN  IF ~IsDefined(airtableItem)
        THEN [sku |-> RndUpSku, unit_cost_inc_vat |-> Int2Rat(0)]
        ELSE Get(airtableItem)

\* some object makes the map callback throw
SquareAirtableMapThrows(details, objects) ==
    \E i \in 1..Len(objects) : LookupThrows(details, objects[i])

\* as SquareAirtableMap, keyed by the parent item id instead of the object id
SquareAirtableMapByItemId(details, objects) ==
    [id \in { objects[i].itemVariationData.itemId : i \in 1..Len(objects) } |->
        LET last == CHOOSE i \in 1..Len(objects) :
                        /\ objects[i].itemVariationData.itemId = id
                        /\ \A j \in 1..Len(objects) :
                              objects[j].itemVariationData.itemId = id => j <= i
        IN  LookupEntry(details, objects[last])]

\* Object.fromEntries(objects.map(...)): for a repeated key the last entry wins
SquareAirtableMap(details, objects) ==
    [id \in { objects[i].id : i \in 1..Len(objects) } |->
        LET last == CHOOSE i \in 1..Len(objects) :
                        /\ objects[i].id = id
                        /\ \A j \in 1..Len(objects) : objects[j].id = id => j <= i
        IN  LookupEntry(details, objects[last])]

----------------------------------------------------------------------------
(* Lines 123-165: orders to summaries *)

CustomAmount == "CUSTOM_AMOUNT"

\* line 124: order.tenders?.reduce((a, b) => a + Number(b.amountMoney?.amount), 0) ?? 0
TotalTendered(order) ==
    Sum([i \in 1..Len(order.tenders) |-> order.tenders[i].amountMoney])

\* line 125: the same over processingFeeMoney
TotalSquareFees(order) ==
    Sum([i \in 1..Len(order.tenders) |-> order.tenders[i].processingFeeMoney])

\* as ItemThrows, with the test of the item type inverted
ItemThrowsForCustomAmount(item) ==
    item.catalogObjectId = NoId /\ item.itemType = CustomAmount

\* lines 138-141: the item has no catalog id and is no custom amount
ItemThrows(item) ==
    item.catalogObjectId = NoId /\ item.itemType # CustomAmount

\* as UnitCost, with 0 for an id the map lacks
UnitCostOrZero(map, item) ==
    IF item.catalogObjectId # NoId /\ item.catalogObjectId \in DOMAIN map
    THEN Some(RMul(Int2Rat(100), map[item.catalogObjectId].unit_cost_inc_vat))
    ELSE Some(Int2Rat(0))

\* lines 129-137: 0 without a catalog id, undefined for an id the map lacks,
\* 100 * unit_cost_inc_vat otherwise
UnitCost(map, item) ==
    IF item.catalogObjectId # NoId
    THEN IF item.catalogObjectId \in DOMAIN map
         THEN Some(RMul(Int2Rat(100), map[item.catalogObjectId].unit_cost_inc_vat))
         ELSE Undefined
    ELSE Some(Int2Rat(0))

\* as LineUnitCost, without the quantity
LineUnitCostOfOne(map, item) ==
    Coalesce(UnitCost(map, item), Int2Rat(0))

\* line 143: (unitCost ?? 0) * Number(item.quantity)
LineUnitCost(map, item) ==
    RMul(Coalesce(UnitCost(map, item), Int2Rat(0)), Int2Rat(item.quantity))

\* as ProportionalSquareFee, with the whole fee on every line
WholeSquareFee(totalTendered, totalSquareFees, item) ==
    IF totalTendered > 0 THEN Int2Rat(totalSquareFees) ELSE Int2Rat(0)

\* line 144
ProportionalSquareFee(totalTendered, totalSquareFees, item) ==
    IF totalTendered > 0
    THEN RMul(Int2Rat(totalSquareFees),
              RDiv(Int2Rat(item.totalMoney), Int2Rat(totalTendered)))
    ELSE Int2Rat(0)

\* line 152: Math.round(totalMoney - lineUnitCost - proportionalSquareFee),
\* undefined for an undefined unit cost
ItemProfit(map, totalTendered, totalSquareFees, item) ==
    IF IsDefined(UnitCost(map, item))
    THEN Some(MathRound(RSub(RSub(Int2Rat(item.totalMoney), LineUnitCost(map, item)),
                             ProportionalSquareFee(totalTendered, totalSquareFees, item))))
    ELSE Undefined

\* lines 146-153
ItemSummary(map, totalTendered, totalSquareFees, item) ==
    [ square_object_id |-> item.catalogObjectId,
      quantity |-> item.quantity,
      unit_cost |-> IF IsDefined(UnitCost(map, item))
                    THEN Some(MathRound(Get(UnitCost(map, item))))
                    ELSE Undefined,
      total_money |-> item.totalMoney,
      fee |-> MathRound(ProportionalSquareFee(totalTendered, totalSquareFees, item)),
      profit |-> ItemProfit(map, totalTendered, totalSquareFees, item) ]

\* line 159: itemSummaries.reduce((a, b) => a + (b.profit ?? 0), 0)
OrderProfit(itemSummaries) ==
    Sum([i \in 1..Len(itemSummaries) |-> Coalesce(itemSummaries[i].profit, 0)])

\* lines 156-164
OrderSummary(map, order) ==
    LET totalTendered == TotalTendered(order)
        totalSquareFees == TotalSquareFees(order)
        itemSummaries ==
            [j \in 1..Len(order.lineItems) |->
                ItemSummary(map, totalTendered, totalSquareFees, order.lineItems[j])]
    IN  [ id |-> order.id,
          net_recieved |-> totalTendered - totalSquareFees,
          profit |-> OrderProfit(itemSummaries),
          items |-> itemSummaries,
          total_collected |-> totalTendered,
          fees |-> totalSquareFees,
          tenders |-> [i \in 1..Len(order.tenders) |-> order.tenders[i].type] ]

\* some line item of some order makes the map callback throw
OrderSummariesThrow(orders) ==
    \E i \in 1..Len(orders) : \E j \in 1..Len(orders[i].lineItems) :
        ItemThrows(orders[i].lineItems[j])

OrderSummaries(map, orders) ==
    [i \in 1..Len(orders) |-> OrderSummary(map, orders[i])]

----------------------------------------------------------------------------
(* Lines 167-180: the period summary *)

Card == "CARD"

\* as InBankOrders, keeping the orders paid by card alone
CardOnlyOrders(orderSummaries) ==
    SelectSeq(orderSummaries,
              LAMBDA order : order.tenders # << >> /\ Range(order.tenders) = { Card })

\* line 167
InBankOrders(orderSummaries) ==
    SelectSeq(orderSummaries, LAMBDA order : Includes(order.tenders, Card))

\* as LossOrders, with the comparison the other way round
GainOrders(orderSummaries) ==
    SelectSeq(orderSummaries, LAMBDA order : order.profit > 0)

\* line 168
LossOrders(orderSummaries) ==
    SelectSeq(orderSummaries, LAMBDA order : order.profit < 0)

SumField(summaries, field) ==
    Sum([i \in 1..Len(summaries) |-> summaries[i][field]])

\* lines 170-180
SalesSummary(startDateString, endDateString, orderSummaries) ==
    [ start_date |-> startDateString,
      end_date |-> endDateString,
      total_collected |-> SumField(orderSummaries, "total_collected"),
      net_recieved |-> SumField(orderSummaries, "net_recieved"),
      net_recieved_in_bank |-> SumField(InBankOrders(orderSummaries), "net_recieved"),
      fees |-> SumField(orderSummaries, "fees"),
      profit |-> SumField(orderSummaries, "profit"),
      loss_from_orders |-> SumField(LossOrders(orderSummaries), "profit"),
      orders |-> orderSummaries ]

----------------------------------------------------------------------------
(* The handler *)

Init ==
    /\ pc = "idle"
    /\ squareOrders = Undefined
    /\ airtableItemDetails = << >>
    /\ catalogVariationObjectIds = << >>
    /\ catalogObjects = << >>
    /\ squareAirtableMap = << >>
    /\ response = Undefined
    /\ error = ""

Throw(message) ==
    /\ pc' = "thrown"
    /\ error' = message

\* lines 41-74: a request arrives; the handler runs up to the order search
Request(locationId, start, end) ==
    /\ pc = "idle"
    /\ IF locationId = ""
       THEN Throw("Square location ID not defined")
       ELSE IF ~start.isString \/ ~end.isString
       THEN Throw("Invalid start/end time")
       ELSE IF ~IsDefined(ToISOString(start.text)) \/ ~IsDefined(ToISOString(end.text))
       THEN Throw("RangeError: Invalid time value")
       ELSE /\ pc' = "searchOrders"
            /\ error' = error
    /\ UNCHANGED << squareOrders, airtableItemDetails, catalogVariationObjectIds,
                    catalogObjects, squareAirtableMap, response >>

\* lines 62-82: the order search returns `orders`; the handler runs up to the
\* Airtable select
SearchOrdersReturns(orders) ==
    /\ pc = "searchOrders"
    /\ squareOrders' = orders
    /\ IF ~IsDefined(orders)
       THEN Throw("No orders in period")
       ELSE /\ pc' = "airtableSelect"
            /\ error' = error
    /\ UNCHANGED << airtableItemDetails, catalogVariationObjectIds,
                    catalogObjects, squareAirtableMap, response >>

\* lines 82-103: the Airtable select returns `results`; the handler runs up to
\* the catalog batch retrieve
AirtableSelectReturns(results) ==
    /\ pc = "airtableSelect"
    /\ airtableItemDetails' = AirtableItemDetails(results)
    /\ catalogVariationObjectIds' = CatalogVariationObjectIds(Get(squareOrders))
    /\ pc' = "batchRetrieve"
    /\ UNCHANGED << squareOrders, catalogObjects, squareAirtableMap, response, error >>

\* lines 101-180: the batch retrieve returns `objects`; the handler runs to its
\* end: the response, or the first throw
BatchRetrieveReturns(objects, startDateString, endDateString) ==
    /\ pc = "batchRetrieve"
    /\ catalogObjects' = objects
    /\ IF SquareAirtableMapThrows(airtableItemDetails, objects)
       THEN /\ Throw("Unable to find airtable item")
            /\ UNCHANGED << squareAirtableMap, response >>
       ELSE /\ squareAirtableMap' = SquareAirtableMap(airtableItemDetails, objects)
            /\ IF OrderSummariesThrow(Get(squareOrders))
               THEN /\ Throw("Item does not have a catalog ID")
                    /\ UNCHANGED response
               ELSE /\ response' =
                         Some([ status |-> 200,
                                body |-> SalesSummary(startDateString, endDateString,
                                            OrderSummaries(squareAirtableMap', Get(squareOrders))) ])
                    /\ pc' = "responded"
                    /\ error' = error
    /\ UNCHANGED << squareOrders, airtableItemDetails, catalogVariationObjectIds >>

----------------------------------------------------------------------------
(* What the outside gives the handler *)

\* process.env.SQUARE_LOCATION_ID: unset, or set
LocationIds == { "", "L1" }

\* req.query.start / req.query.end: a string, or (for a repeated parameter) an array
QueryValues ==
    { [isString |-> TRUE, text |-> "2022-10-01"],
      [isString |-> TRUE, text |-> "2022-10-31T23:59:59Z"],
      [isString |-> TRUE, text |-> "yesterday"],
      [isString |-> FALSE, text |-> ""] }

\* the query of the requests that get past validation
StartDate == "2022-10-01"
EndDate == "2022-10-31T23:59:59Z"

SeqsUpTo(S, n) == UNION { [1..k -> S] : k \in 0..n }

\* catalog objects are item variations of an item; the item "i1" is the one
\* Airtable knows, and a variation may carry the rounding-up sku
VariationData ==
    { [itemId |-> "i1", sku |-> "BAR"],
      [itemId |-> "i1", sku |-> "RNDUP"],
      [itemId |-> "i2", sku |-> "BAR"],
      [itemId |-> "i2", sku |-> "RNDUP"] }

\* the batch retrieve answers with one object for each requested id it finds
\* (an id it does not find is left out), in the order of the request
CatalogResponses(objectIds) ==
    LET wanted == Distinct(objectIds)
    IN  UNION { { [i \in 1..Len(found) |->
                      [id |-> found[i], itemVariationData |-> data[found[i]]]] :
                  data \in [Range(found) -> VariationData] } :
                found \in { SelectSeq(wanted, LAMBDA id : id \in S) :
                            S \in SUBSET Range(wanted) } }

\* orders numbered in the order of the search result
Orders(shapes) ==
    [i \in 1..Len(shapes) |->
        [id |-> i, lineItems |-> shapes[i].lineItems, tenders |-> shapes[i].tenders]]

LineItem(catalogObjectId, itemType, quantity, totalMoney) ==
    [catalogObjectId |-> catalogObjectId, itemType |-> itemType,
     quantity |-> quantity, totalMoney |-> totalMoney]

Tender(type, amountMoney, processingFeeMoney) ==
    [type |-> type, amountMoney |-> amountMoney,
     processingFeeMoney |-> processingFeeMoney]

AirtableRecord(squareCatalogId, unitPrice) ==
    [squareCatalogId |-> squareCatalogId, unitPrice |-> unitPrice]

----------------------------------------------------------------------------
(* Spec: a period of up to MaxOrders small orders *)

MaxOrders == 2

\* a line of 2 (minor units): without a catalog id, a custom amount, or one
\* of two catalog items
PeriodLineItems ==
    { LineItem(NoId, "ITEM", 1, 2), LineItem(NoId, CustomAmount, 1, 2),
      LineItem("v1", "ITEM", 1, 2), LineItem("v2", "ITEM", 1, 2) }

\* a card payment that costs a fee, or cash
PeriodTenders == { Tender(Card, 2, 1), Tender("CASH", 2, 0) }

\* nothing tendered yet, one tender, or a payment split over card and cash
PeriodTenderLists ==
    SeqsUpTo(PeriodTenders, 1) \cup { << Tender(Card, 2, 1), Tender("CASH", 2, 0) >> }

PeriodOrderShapes ==
    [lineItems : SeqsUpTo(PeriodLineItems, 1), tenders : PeriodTenderLists]

\* no `orders` in the result, or a list of orders (possibly empty)
PeriodSearchResults ==
    { Undefined } \cup
    { Some(Orders(shapes)) : shapes \in SeqsUpTo(PeriodOrderShapes, MaxOrders) }

\* unit prices of 0.05 and 0.01 (major units) for the item "i1"
PeriodAirtableResults ==
    LET dear == AirtableRecord("i1", Rat(5, 100))
        cheap == AirtableRecord("i1", Rat(1, 100))
    IN  { << >>, << dear >>, << dear, cheap >>, << cheap, dear >> }

Next ==
    \/ /\ pc = "idle"
       /\ \E locationId \in LocationIds : \E start, end \in QueryValues :
             Request(locationId, start, end)
    \/ /\ pc = "searchOrders"
       /\ \E orders \in PeriodSearchResults : SearchOrdersReturns(orders)
    \/ /\ pc = "airtableSelect"
       /\ \E results \in PeriodAirtableResults : AirtableSelectReturns(results)
    \/ /\ pc = "batchRetrieve"
       /\ \E objects \in CatalogResponses(catalogVariationObjectIds) :
             BatchRetrieveReturns(objects, Get(ToISOString(StartDate)),
                                  Get(ToISOString(EndDate)))

Spec == Init /\ [][Next]_vars

----------------------------------------------------------------------------
(* SpecOrder: a period of one order of up to MaxItems lines, over amounts    *)
(* that make the fee shares and the unit costs fractional                    *)

MaxItems == 2

Moneys == { 0, 1, 2, 300 }

Quantities == { 1, 2 }

OrderLineItems ==
    { LineItem(NoId, "ITEM", 1, 1) } \cup
    { LineItem(NoId, CustomAmount, 1, m) : m \in Moneys } \cup
    { LineItem("v1", "ITEM", q, m) : q \in Quantities, m \in Moneys }

\* a card tender: the amount, and a fee that is no more than the amount
OrderTenders ==
    { t \in { Tender(Card, a, f) : a \in { 0, 2, 3, 300 }, f \in { 0, 1, 10 } } :
        t.processingFeeMoney <= t.amountMoney }

OrderShapes ==
    [lineItems : SeqsUpTo(OrderLineItems, MaxItems), tenders : SeqsUpTo(OrderTenders, 1)]

OrderSearchResults ==
    { Undefined } \cup { Some(Orders(<< shape >>)) : shape \in OrderShapes }

\* a unit price of 0.005 (half a minor unit) or of 0.50 for the item "i1"
OrderAirtableResults ==
    { << >>, << AirtableRecord("i1", Rat(5, 1000)) >>,
      << AirtableRecord("i1", Rat(50, 100)) >> }

NextOrder ==
    \/ /\ pc = "idle"
       /\ \E locationId \in LocationIds : \E start, end \in QueryValues :
             Request(locationId, start, end)
    \/ /\ pc = "searchOrders"
       /\ \E orders \in OrderSearchResults : SearchOrdersReturns(orders)
    \/ /\ pc = "airtableSelect"
       /\ \E results \in OrderAirtableResults : AirtableSelectReturns(results)
    \/ /\ pc = "batchRetrieve"
       /\ \E objects \in CatalogResponses(catalogVariationObjectIds) :
             BatchRetrieveReturns(objects, Get(ToISOString(StartDate)),
                                  Get(ToISOString(EndDate)))

SpecOrder == Init /\ [][NextOrder]_vars

----------------------------------------------------------------------------
(* Vocabulary of the properties *)

Responded == pc = "responded"

Finished == pc \in { "responded", "thrown" }

\* the batch retrieve has returned and the handler has run to its end
BatchReturned ==
    \/ pc = "responded"
    \/ pc = "thrown" /\ error \in { "Unable to find airtable item",
                                    "Item does not have a catalog ID" }

\* the batch retrieve has been requested
BatchRequested == pc = "batchRetrieve" \/ BatchReturned

Body == Get(response).body

FetchedOrders == Get(squareOrders)

\* f[1] + ... + f[n]
RECURSIVE SumTo(_, _)
SumTo(f, n) == IF n = 0 THEN 0 ELSE SumTo(f, n - 1) + f[n]

Abs(x) == IF x < 0 THEN -x ELSE x

\* k is n/d (d > 0) rounded to the nearest integer: k - 1/2 <= n/d < k + 1/2
IsRounded(k, n, d) == 2 * k * d <= 2 * n + d /\ 2 * n + d < 2 * (k + 1) * d

\* what was tendered for the fetched order, and the fees on it
TenderedOf(order) == SumTo([t \in 1..Len(order.tenders) |-> order.tenders[t].amountMoney],
                           Len(order.tenders))
FeesOf(order) == SumTo([t \in 1..Len(order.tenders) |-> order.tenders[t].processingFeeMoney],
                       Len(order.tenders))

\* the j-th line of the i-th fetched order, and its summary in the response
Line(i, j) == FetchedOrders[i].lineItems[j]
LineSummary(i, j) == Body.orders[i].items[j]
NumLines(i) == Len(FetchedOrders[i].lineItems)

\* a line that is neither identified nor a custom amount
ShapeError ==
    \E i \in 1..Len(FetchedOrders) : \E j \in 1..Len(FetchedOrders[i].lineItems) :
        /\ FetchedOrders[i].lineItems[j].catalogObjectId = NoId
        /\ FetchedOrders[i].lineItems[j].itemType # "CUSTOM_AMOUNT"

\* the parent item of the catalog object is the sku of no Airtable item
Unmatched(object) ==
    \A k \in 1..Len(airtableItemDetails) :
        airtableItemDetails[k].sku # object.itemVariationData.itemId

\* an unmatched catalog object that is not the rounding-up one
JoinFailure ==
    \E i \in 1..Len(catalogObjects) :
        /\ Unmatched(catalogObjects[i])
        /\ catalogObjects[i].itemVariationData.sku # "RNDUP"

----------------------------------------------------------------------------
(* C1 *)

\* C1: a summary is sent only when the order search returned at least one
\* order; an empty result (no `orders`, or an `orders` list with no entry)
\* never ends in a summary.
C1_SummaryOnlyForNonEmptyResult ==
    IsDefined(response) =>
        IsDefined(squareOrders) /\ Len(FetchedOrders) >= 1

----------------------------------------------------------------------------
(* C2 *)

\* C2: once the batch retrieve has returned: if some returned catalog object
\* matches no Airtable sku and is not the "RNDUP" one, the request has
\* thrown and no summary is sent; otherwise the cost lookup has not thrown
\* and every returned object is in the map, an unmatched ("RNDUP") one at unit
\* cost 0 and a matched one as the first Airtable item whose sku is its
\* parent item id.
C2_CostResolver ==
    BatchReturned =>
        IF JoinFailure
        THEN /\ pc = "thrown"
             /\ error = "Unable to find airtable item"
             /\ ~IsDefined(response)
        ELSE /\ error # "Unable to find airtable item"
             /\ \A i \in 1..Len(catalogObjects) :
                   LET object == catalogObjects[i]
                       itemId == object.itemVariationData.itemId
                   IN  /\ object.id \in DOMAIN squareAirtableMap
                       /\ Unmatched(object) =>
                             squareAirtableMap[object.id].unit_cost_inc_vat.n = 0
                       /\ ~Unmatched(object) =>
                             \E k \in 1..Len(airtableItemDetails) :
                                /\ airtableItemDetails[k].sku = itemId
                                /\ \A l \in 1..(k - 1) : airtableItemDetails[l].sku # itemId
                                /\ squareAirtableMap[object.id] = airtableItemDetails[k]

\* a summary was sent although one returned object was an unmatched "RNDUP"
\* variation, next to a matched object whose first Airtable item is not the only one
C2_Witness ==
    /\ Responded
    /\ \E i \in 1..Len(catalogObjects) :
          /\ Unmatched(catalogObjects[i])
          /\ catalogObjects[i].itemVariationData.sku = "RNDUP"
          /\ squareAirtableMap[catalogObjects[i].id].unit_cost_inc_vat.n = 0
    /\ \E i \in 1..Len(catalogObjects) :
          /\ ~Unmatched(catalogObjects[i])
          /\ squareAirtableMap[catalogObjects[i].id].unit_cost_inc_vat.n > 0
    /\ Len(airtableItemDetails) = 2

----------------------------------------------------------------------------
(* C3 *)

\* the batch retrieve returned an object for this id
Returned(id) == \E k \in 1..Len(catalogObjects) : catalogObjects[k].id = id

\* C3 as claimed: in a request that ends with a summary, every catalog id a
\* line item refers to is in the cost index and no such line has an unknown
\* unit_cost.
C3_EveryReferencedIdResolves ==
    Responded =>
        \A i \in 1..Len(FetchedOrders) : \A j \in 1..NumLines(i) :
            Line(i, j).catalogObjectId # NoId =>
                /\ Line(i, j).catalogObjectId \in DOMAIN squareAirtableMap
                /\ IsDefined(LineSummary(i, j).unit_cost)

\* C3 amended: in a request that ends with a summary, a catalog id a line
\* item refers to is in the cost index exactly when the batch retrieve
\* returned an object for it; the line then has a known unit_cost, 100 times
\* the indexed cost rounded, the indexed cost being an Airtable item's or 0
\* under the "RNDUP" sku; the line of an id that was not returned has an
\* unknown unit_cost, and the summary is sent all the same.
C3_ReturnedIdsResolve ==
    Responded =>
        \A i \in 1..Len(FetchedOrders) : \A j \in 1..NumLines(i) :
            LET id == Line(i, j).catalogObjectId
            IN  id # NoId =>
                    IF Returned(id)
                    THEN /\ id \in DOMAIN squareAirtableMap
                         /\ \/ \E k \in 1..Len(airtableItemDetails) :
                                  squareAirtableMap[id] = airtableItemDetails[k]
                            \/ /\ squareAirtableMap[id].sku = "RNDUP"
                               /\ squareAirtableMap[id].unit_cost_inc_vat.n = 0
                         /\ IsDefined(LineSummary(i, j).unit_cost)
                         /\ IsRounded(Get(LineSummary(i, j).unit_cost),
                                      100 * squareAirtableMap[id].unit_cost_inc_vat.n,
                                      squareAirtableMap[id].unit_cost_inc_vat.d)
                    ELSE /\ id \notin DOMAIN squareAirtableMap
                         /\ ~IsDefined(LineSummary(i, j).unit_cost)

\* a summary with one line whose id was returned and resolved to a cost, and
\* one line whose id was not returned
C3_Witness ==
    /\ Responded
    /\ \E i \in 1..Len(FetchedOrders) : \E j \in 1..NumLines(i) :
          /\ Line(i, j).catalogObjectId # NoId
          /\ Returned(Line(i, j).catalogObjectId)
          /\ LineSummary(i, j).unit_cost = Some(5)
    /\ \E i \in 1..Len(FetchedOrders) : \E j \in 1..NumLines(i) :
          /\ Line(i, j).catalogObjectId # NoId
          /\ ~Returned(Line(i, j).catalogObjectId)
          /\ ~IsDefined(LineSummary(i, j).unit_cost)

----------------------------------------------------------------------------
(* C4 *)

\* the line has no catalog id and is a custom amount
IsCustomLine(i, j) ==
    Line(i, j).catalogObjectId = NoId /\ Line(i, j).itemType = "CUSTOM_AMOUNT"

\* C4: with a line that has no catalog id and is not a "CUSTOM_AMOUNT", no
\* summary is ever sent and the finished request has thrown; in a summary, a
\* "CUSTOM_AMOUNT" line without catalog id has unit cost 0 and the profit
\* round(totalMoney - fees * totalMoney / tendered) (no fee share when
\* nothing was tendered), which is totalMoney when the order bears no fees.
C4_LinesWithoutCatalogId ==
    /\ IsDefined(squareOrders) /\ ShapeError =>
          /\ ~IsDefined(response)
          /\ Finished => pc = "thrown"
    /\ Responded =>
          \A i \in 1..Len(FetchedOrders) : \A j \in 1..NumLines(i) :
              IsCustomLine(i, j) =>
                  LET M == Line(i, j).totalMoney
                      T == TenderedOf(FetchedOrders[i])
                      F == FeesOf(FetchedOrders[i])
                      profit == LineSummary(i, j).profit
                  IN  /\ LineSummary(i, j).unit_cost = Some(0)
                      /\ IsDefined(profit)
                      /\ IF T > 0
                         THEN IsRounded(Get(profit), M * T - F * M, T)
                         ELSE Get(profit) = M
                      /\ F = 0 => Get(profit) = M

\* a summary with a custom amount of 300 in an order without fees (profit
\* 300), and one with a custom amount in an order that bears a fee
C4_Witness ==
    /\ Responded
    /\ \E i \in 1..Len(FetchedOrders) : \E j \in 1..NumLines(i) :
          /\ IsCustomLine(i, j)
          /\ Line(i, j).totalMoney = 300
          /\ FeesOf(FetchedOrders[i]) = 0
          /\ LineSummary(i, j).unit_cost = Some(0)
          /\ LineSummary(i, j).profit = Some(300)

----------------------------------------------------------------------------
(* C5 *)

\* the resolved unit cost of an identified line, 100 * unit_cost_inc_vat, as
\* a fraction [n, d]
ResolvedCost(i, j) ==
    IF Line(i, j).catalogObjectId = NoId
    THEN [n |-> 0, d |-> 1]
    ELSE [n |-> 100 * squareAirtableMap[Line(i, j).catalogObjectId].unit_cost_inc_vat.n,
          d |-> squareAirtableMap[Line(i, j).catalogObjectId].unit_cost_inc_vat.d]

IsResolved(i, j) ==
    \/ Line(i, j).catalogObjectId = NoId
    \/ Line(i, j).catalogObjectId \in DOMAIN squareAirtableMap

\* C5: in a summary, a line with resolved unit cost C, quantity Q and total
\* money M, in an order with T tendered and fees F, has profit
\* round(M - C*Q - F*M/T) (round(M - C*Q) when T = 0); a single line with
\* M = T has profit round(M - C*Q - F), which is then the order's profit; and
\* the order's net_recieved is T - F.
C5_LineProfit ==
    Responded =>
        \A i \in 1..Len(FetchedOrders) :
            LET T == TenderedOf(FetchedOrders[i])
                F == FeesOf(FetchedOrders[i])
            IN  /\ Body.orders[i].net_recieved = T - F
                /\ \A j \in 1..NumLines(i) :
                      IsResolved(i, j) =>
                          LET M == Line(i, j).totalMoney
                              Q == Line(i, j).quantity
                              C == ResolvedCost(i, j)
                              profit == LineSummary(i, j).profit
                          IN  /\ IsDefined(profit)
                              /\ IF T > 0
                                 THEN IsRounded(Get(profit),
                                                M * C.d * T - C.n * Q * T - F * M * C.d,
                                                C.d * T)
                                 ELSE IsRounded(Get(profit), M * C.d - C.n * Q, C.d)
                              /\ NumLines(i) = 1 /\ M = T /\ T > 0 =>
                                    /\ IsRounded(Get(profit),
                                                 M * C.d - C.n * Q - F * C.d, C.d)
                                    /\ Body.orders[i].profit = Get(profit)

\* the scenario: one line of quantity 2 and total money 300 at unit cost 50,
\* one tender of 300 with fee 10: line profit 190, order profit 190, net
\* received 290
C5_Witness ==
    /\ Responded
    /\ Len(FetchedOrders) = 1
    /\ NumLines(1) = 1
    /\ Line(1, 1).quantity = 2
    /\ Line(1, 1).totalMoney = 300
    /\ Line(1, 1).catalogObjectId # NoId
    /\ IsResolved(1, 1)
    /\ ResolvedCost(1, 1).n = 50 * ResolvedCost(1, 1).d
    /\ TenderedOf(FetchedOrders[1]) = 300
    /\ FeesOf(FetchedOrders[1]) = 10
    /\ LineSummary(1, 1).unit_cost = Some(50)
    /\ LineSummary(1, 1).profit = Some(190)
    /\ Body.orders[1].profit = 190
    /\ Body.orders[1].net_recieved = 290

----------------------------------------------------------------------------
(* C6 *)

\* the sum of the rounded fee shares of the lines of the i-th order
FeeShares(i) ==
    SumTo([j \in 1..NumLines(i) |-> LineSummary(i, j).fee], NumLines(i))

\* the sum of the total money of the lines of the i-th order
LineMoney(i) ==
    SumTo([j \in 1..NumLines(i) |-> Line(i, j).totalMoney], NumLines(i))

\* C6 as claimed: for every order of a summary, the rounded fee shares of its
\* lines sum to the order's fees within the number of its lines.
C6_FeeSharesSumToFees ==
    Responded =>
        \A i \in 1..Len(FetchedOrders) :
            Abs(FeeShares(i) - FeesOf(FetchedOrders[i])) <= NumLines(i)

\* C6 amended: for every order of a summary whose lines' total money sums to
\* what was tendered, and something was tendered, the rounded fee shares sum
\* to the order's fees within the number of its lines; when nothing was
\* tendered every fee share is 0.
C6_FeeSharesSumToFeesWhenLinesSumToTendered ==
    Responded =>
        \A i \in 1..Len(FetchedOrders) :
            LET T == TenderedOf(FetchedOrders[i])
                F == FeesOf(FetchedOrders[i])
            IN  /\ Body.orders[i].fees = F
                /\ T > 0 /\ LineMoney(i) = T =>
                      Abs(FeeShares(i) - F) <= NumLines(i)
                /\ T = 0 => \A j \in 1..NumLines(i) : LineSummary(i, j).fee = 0

\* an order of two lines that sum to what was tendered, with a fee whose
\* rounded shares do not sum to it
C6_Witness ==
    /\ Responded
    /\ \E i \in 1..Len(FetchedOrders) :
          /\ NumLines(i) >= 2
          /\ TenderedOf(FetchedOrders[i]) > 0
          /\ LineMoney(i) = TenderedOf(FetchedOrders[i])
          /\ FeesOf(FetchedOrders[i]) > 0
          /\ FeeShares(i) # FeesOf(FetchedOrders[i])

----------------------------------------------------------------------------
(* C7 *)

\* some tender of the fetched order is a card tender
HasCardTender(order) == \E t \in 1..Len(order.tenders) : order.tenders[t].type = "CARD"

NetOf(order) == TenderedOf(order) - FeesOf(order)

----------------------------------------------------------------------------
(* C8 *)

\* C8: in a summary, loss_from_orders is the sum of the profit of the orders
\* whose profit is negative (0 without such an order); it is never positive.
C8_LossFromOrders ==
    Responded =>
        /\ Body.loss_from_orders =
              SumTo([i \in 1..Len(Body.orders) |->
                        IF Body.orders[i].profit < 0 THEN Body.orders[i].profit ELSE 0],
                    Len(Body.orders))
        /\ Body.loss_from_orders <= 0

\* a summary over an order sold at a loss and an order sold at a profit
C8_Witness ==
    /\ Responded
    /\ \E i \in 1..Len(Body.orders) : Body.orders[i].profit < 0
    /\ \E i \in 1..Len(Body.orders) : Body.orders[i].profit > 0
    /\ Body.loss_from_orders < 0
    /\ Body.loss_from_orders < Body.profit

----------------------------------------------------------------------------
(* C9 *)

\* the line has a catalog id that the cost index lacks
IsUnknownLine(i, j) ==
    /\ Line(i, j).catalogObjectId # NoId
    /\ Line(i, j).catalogObjectId \notin DOMAIN squareAirtableMap

\* C9: in a summary, a line whose catalog id the cost index lacks has unit
\* cost and profit unknown (not 0); an order's profit is the sum of the
\* rounded profits of its other lines, and its net received and fees are
\* computed; and once the batch retrieve has returned, the request has thrown
\* only for an unmatched catalog object or for a line without catalog id that
\* is no custom amount, never for an id the index lacks.
C9_UnknownLines ==
    /\ Responded =>
          \A i \in 1..Len(FetchedOrders) :
              /\ \A j \in 1..NumLines(i) :
                    IsUnknownLine(i, j) =>
                        /\ LineSummary(i, j).unit_cost = Undefined
                        /\ LineSummary(i, j).profit = Undefined
              /\ Body.orders[i].profit =
                    SumTo([j \in 1..NumLines(i) |->
                              IF IsUnknownLine(i, j) THEN 0
                              ELSE Get(LineSummary(i, j).profit)],
                          NumLines(i))
              /\ Body.orders[i].net_recieved = NetOf(FetchedOrders[i])
              /\ Body.orders[i].fees = FeesOf(FetchedOrders[i])
    /\ BatchReturned /\ ~JoinFailure /\ ~ShapeError => Responded

\* a summary of an order with an unknown line of money and a resolved line:
\* the order's profit is the resolved line's
C9_Witness ==
    /\ Responded
    /\ \E i \in 1..Len(FetchedOrders) : \E j, k \in 1..NumLines(i) :
          /\ IsUnknownLine(i, j)
          /\ Line(i, j).totalMoney > 0
          /\ LineSummary(i, j).profit = Undefined
          /\ ~IsUnknownLine(i, k)
          /\ NumLines(i) = 2
          /\ Body.orders[i].profit = Get(LineSummary(i, k).profit)
          /\ Body.orders[i].profit > 0

----------------------------------------------------------------------------
(* C10 *)

\* how often id occurs in the list
Occurrences(list, id) == Cardinality({ k \in 1..Len(list) : list[k] = id })

\* how many lines of the fetched orders refer to id
References(id) ==
    SumTo([i \in 1..Len(FetchedOrders) |->
              Cardinality({ j \in 1..NumLines(i) : Line(i, j).catalogObjectId = id })],
          Len(FetchedOrders))

\* the catalog ids the lines of the fetched orders refer to
ReferencedIds ==
    UNION { { Line(i, j).catalogObjectId : j \in 1..NumLines(i) } :
            i \in 1..Len(FetchedOrders) } \ { NoId }

\* C10 as claimed: the list of ids of the batch retrieve has no duplicates:
\* every referenced id is in it exactly once, and a line without id adds
\* nothing.
C10_ObjectIdsDeduplicated ==
    BatchRequested =>
        /\ \A k, l \in 1..Len(catalogVariationObjectIds) :
              k # l => catalogVariationObjectIds[k] # catalogVariationObjectIds[l]
        /\ \A id \in ReferencedIds : Occurrences(catalogVariationObjectIds, id) = 1
        /\ Occurrences(catalogVariationObjectIds, NoId) = 0

\* C10 amended: the list of ids of the batch retrieve holds every referenced
\* id once for each line item that refers to it (an id that several lines
\* refer to is repeated), holds nothing else, and a line without id adds
\* nothing.
C10_ObjectIdsOncePerLine ==
    BatchRequested =>
        /\ \A id \in ReferencedIds :
              Occurrences(catalogVariationObjectIds, id) = References(id)
        /\ \A k \in 1..Len(catalogVariationObjectIds) :
              catalogVariationObjectIds[k] \in ReferencedIds
        /\ Occurrences(catalogVariationObjectIds, NoId) = 0

\* two lines refer to one catalog item: the id is requested twice
C10_Witness ==
    /\ BatchRequested
    /\ \E id \in ReferencedIds :
          /\ References(id) = 2
          /\ Occurrences(catalogVariationObjectIds, id) = 2

====
